---- MODULE Spec2Model ----
(***************************************************************************)
(* Nest cam viewer: the HLS relay manager (hlsStreams, startHls, stopHls,  *)
(* stopAllHls) and the token store (tokens, refreshAccessToken,            *)
(* getValidToken) of the cloud server, with the HTTP handlers that drive   *)
(* them.  The server is one Node.js event loop: every action below is one  *)
(* run-to-completion callback of that loop, or one step of the             *)
(* environment (a relay process, the clock, a remote endpoint answering).  *)
(***************************************************************************)
EXTENDS Integers, Sequences, FiniteSets, TLC

VARIABLES
    tokens,        \* the token store: null, or {access_token, refresh_token, expiry}
    now,           \* Date.now(), in milliseconds
    ticks,         \* how often the clock has advanced (bounds the model only)
    hlsStreams,    \* the slot table: slot id -> {process, rtspUrl}
    procs,         \* every ChildProcess spawn() has returned, by spawn order
    dirs,          \* staging directory of each slot: exists, files
    reqs,          \* the HTTP requests being handled: position and outcome
    pendingError,  \* ChildProcess whose 'error' event is queued for the next tick
    crashed,       \* the server died of an uncaught exception
    errlog         \* slots for which console.error has printed a line of ffmpeg

vars == <<tokens, now, ticks, hlsStreams, procs, dirs, reqs, pendingError, crashed,
          errlog>>

---------------------------------------------------------------------------
(* Bounds of the model *)

MaxProcs == 2
MaxTicks == 2
MaxServed == 1

(* Program constants *)

Margin == 60000
MsPerSecond == 1000
PollInterval == 200
PollTimeout == 8000

(* Small sets the inputs are drawn from *)

Slots == {"0", "1"}
Urls == {"rtsp://a", "rtsp://b"}
Reqs == {"r1", "r2"}
RelayReqs == {"r1"}
None == "none"
AccessTokens == {"at1", "at2"}
EnvRefreshToken == "rt0"
RotatedRefreshToken == "rt1"
ExpiresIn == {30, 60, 3600}
ClockSteps == {1, 3540000}
Leftover == {0}

---------------------------------------------------------------------------
(* Token store *)

NullTokens == [isNull |-> TRUE, access_token |-> None, refresh_token |-> None, expiry |-> 0]

\* initTokens: with REFRESH_TOKEN in the environment the store starts without an
\* access token and with expiry 0; without it the store stays null.
initTokens(envRefreshToken) ==
    IF envRefreshToken # None
    THEN [isNull |-> FALSE, access_token |-> None,
          refresh_token |-> envRefreshToken, expiry |-> 0]
    ELSE NullTokens

\* saveTokens(t): tokens = t, whatever fields t carries.
saveTokens(t) ==
    [isNull |-> FALSE, access_token |-> t.access_token,
     refresh_token |-> t.refresh_token, expiry |-> t.expiry]

\* Variant of NeedsRefresh that also refreshes at the margin itself (>= for >).
NeedsRefreshAtMargin(t, clock) ==
    t.access_token = None \/ clock >= t.expiry - Margin

\* The condition of getValidToken under which it awaits refreshAccessToken.
NeedsRefresh(t, clock) ==
    t.access_token = None \/ clock > t.expiry - Margin

\* What httpsRequest can resolve with at the token endpoint.  The code reads
\* body.access_token and body.expires_in only; the status is carried along and
\* never consulted.  Bodies follow the endpoint's contract: an error status
\* comes with an error body, which has no access_token.
TokenResponses ==
    [kind : {"resolved"}, status : {200}, access_token : AccessTokens,
     refresh_token : {None, RotatedRefreshToken}, expires_in : ExpiresIn]
    \cup
    [kind : {"resolved"}, status : {200, 400}, access_token : {None},
     refresh_token : {None}, expires_in : {0}]
    \cup
    [kind : {"rejected"}, status : {0}, access_token : {None},
     refresh_token : {None}, expires_in : {0}]

\* The test of refreshAccessToken on the answer: if (res.body.access_token).
RefreshSucceeds(resp) ==
    resp.kind = "resolved" /\ resp.access_token # None

\* refreshAccessToken after its await, on an answer that passes the test:
\* tokens = {...tokens, access_token, expiry}.
refreshAccessToken(t, resp, clock) ==
    [t EXCEPT !.isNull = FALSE,
              !.access_token = resp.access_token,
              !.expiry = clock + resp.expires_in * MsPerSecond]

---------------------------------------------------------------------------
(* Slot table and relay processes *)

Registered(h, s) == s \in DOMAIN h

Remove(h, s) == [k \in (DOMAIN h) \ {s} |-> h[k]]

Put(h, s, e) == [k \in (DOMAIN h) \cup {s} |-> IF k = s THEN e ELSE h[k]]

\* A relay process is live from spawn until the operating system has ended it.
Live(p) == p.state = "running"

\* Variant of stopHls that forgets the entry without killing its process.
stopHlsNoKill(h, ps, s) ==
    IF Registered(h, s) THEN [hls |-> Remove(h, s), procs |-> ps]
    ELSE [hls |-> h, procs |-> ps]

\* Variant of stopHls that kills the process and keeps the entry.
stopHlsKeepsEntry(h, ps, s) ==
    IF Registered(h, s)
    THEN [hls |-> h, procs |-> [ps EXCEPT ![h[s].process].signalled = TRUE]]
    ELSE [hls |-> h, procs |-> ps]

\* Variant of stopHls that kills the slot's process and resets the whole table.
stopHlsClearsTable(h, ps, s) ==
    IF Registered(h, s)
    THEN [hls |-> [k \in {} |-> 0],
          procs |-> [ps EXCEPT ![h[s].process].signalled = TRUE]]
    ELSE [hls |-> h, procs |-> ps]

\* stopHls(slotId) on the pair (slot table, processes).
stopHls(h, ps, s) ==
    IF Registered(h, s)
    THEN [hls |-> Remove(h, s),
          procs |-> [ps EXCEPT ![h[s].process].signalled = TRUE]]
    ELSE [hls |-> h, procs |-> ps]

RECURSIVE StopEach(_, _, _)
StopEach(h, ps, todo) ==
    IF todo = {} THEN [hls |-> h, procs |-> ps]
    ELSE LET s == CHOOSE x \in todo : TRUE
             r == stopHls(h, ps, s)
         IN StopEach(r.hls, r.procs, todo \ {s})

\* Variant of stopAllHls that stops one registered slot and leaves the rest.
stopAllHlsOne(h, ps) ==
    IF DOMAIN h = {} THEN [hls |-> h, procs |-> ps]
    ELSE stopHls(h, ps, CHOOSE x \in DOMAIN h : TRUE)

\* stopAllHls: Object.keys(hlsStreams).forEach(stopHls)
stopAllHls(h, ps) == StopEach(h, ps, DOMAIN h)

\* What the environment decides during one startHls: whether mkdirSync works,
\* which files survive the cleanup (readdirSync/unlinkSync errors are
\* swallowed), and how spawn ends: "ok", "error" (the program cannot be
\* launched: the ChildProcess is returned and emits 'error' on the next tick)
\* or "throw" (spawn throws).
SpawnOutcomes == {"ok", "error", "throw"}

StartEnvs(d) ==
    [mkdir : BOOLEAN, kept : SUBSET d.files, spawn : SpawnOutcomes]

\* Variant of startHls that does not stop the process the slot has.
startHlsKeepsOld(h, ps, d, s, url, env) ==
    LET pid == Len(ps) + 1
    IN  IF ~d.exists /\ ~env.mkdir
        THEN [hls |-> h, procs |-> ps, dir |-> d, threw |-> TRUE, errorOf |-> 0]
        ELSE LET d2 == [exists |-> TRUE, files |-> env.kept] IN
             IF env.spawn = "throw"
             THEN [hls |-> h, procs |-> ps, dir |-> d2, threw |-> TRUE,
                   errorOf |-> 0]
             ELSE LET child == [slot |-> s, url |-> url, signalled |-> FALSE,
                                state |-> IF env.spawn = "ok" THEN "running"
                                          ELSE "failed"]
                  IN [hls |-> Put(h, s, [process |-> pid, rtspUrl |-> url]),
                      procs |-> Append(ps, child),
                      dir |-> d2,
                      threw |-> FALSE,
                      errorOf |-> IF env.spawn = "ok" THEN 0 ELSE pid]

\* startHls(slotId, rtspUrl) on (slot table, processes, directory of the slot).
\* threw: an exception left startHls; errorOf: the ChildProcess with a queued
\* 'error' event, or 0.
startHls(h, ps, d, s, url, env) ==
    LET stopped == stopHls(h, ps, s)
        pid == Len(ps) + 1
    IN  IF ~d.exists /\ ~env.mkdir
        THEN [hls |-> stopped.hls, procs |-> stopped.procs, dir |-> d,
              threw |-> TRUE, errorOf |-> 0]
        ELSE LET d2 == [exists |-> TRUE, files |-> env.kept] IN
             IF env.spawn = "throw"
             THEN [hls |-> stopped.hls, procs |-> stopped.procs, dir |-> d2,
                   threw |-> TRUE, errorOf |-> 0]
             ELSE LET child == [slot |-> s, url |-> url, signalled |-> FALSE,
                                state |-> IF env.spawn = "ok" THEN "running"
                                          ELSE "failed"]
                  IN [hls |-> Put(stopped.hls, s, [process |-> pid, rtspUrl |-> url]),
                      procs |-> Append(stopped.procs, child),
                      dir |-> d2,
                      threw |-> FALSE,
                      errorOf |-> IF env.spawn = "ok" THEN 0 ELSE pid]

---------------------------------------------------------------------------
(* HTTP requests *)

\* pc: where the handler stands; status, error: its answer; token: the bearer
\* token getValidToken returned; refreshes: the refresh requests it has sent;
\* url: the rtspUrl of the grant it received; waited: the local of the /hls/
\* handler, in milliseconds.  stopAcked is history, not program state: a
\* /api/stop for the slot of this request was answered while the request was
\* waiting (only ApiStopAcked records it).
IdleReq == [pc |-> "idle", kind |-> None, slot |-> None, status |-> 0,
            error |-> None, token |-> None, refreshes |-> 0, url |-> None,
            waited |-> 0, stopAcked |-> FALSE]

Finished(r) == reqs[r].pc \in {"idle", "done"}

Serving == ~crashed /\ pendingError = 0

Fail(q, msg) == [q EXCEPT !.pc = "done", !.status = 500, !.error = msg]

Succeed(q) == [q EXCEPT !.pc = "done", !.status = 200]

\* getValidToken up to its first await, for the request record q: it throws,
\* sends a refresh request and waits, or returns the cached token (and the
\* caller sends its API request).
getValidToken(q, t, clock) ==
    IF t.isNull THEN Fail(q, "Not authenticated")
    ELSE IF NeedsRefresh(t, clock)
         THEN [q EXCEPT !.pc = "awaitRefresh", !.refreshes = @ + 1]
         ELSE [q EXCEPT !.pc = "awaitApi", !.token = t.access_token]

\* Variant of AfterRefresh that drops the cached access token when the
\* refresh fails.
AfterRefreshDropsToken(q, t, resp, clock) ==
    IF RefreshSucceeds(resp)
    THEN LET t2 == refreshAccessToken(t, resp, clock)
         IN [tokens |-> t2,
             req |-> [q EXCEPT !.pc = "awaitApi", !.token = t2.access_token]]
    ELSE [tokens |-> [t EXCEPT !.access_token = None, !.expiry = 0],
          req |-> Fail(q, "Token refresh failed")]

\* The rest of getValidToken once the token endpoint has answered: the store
\* and the request record it leaves.
AfterRefresh(q, t, resp, clock) ==
    IF RefreshSucceeds(resp)
    THEN LET t2 == refreshAccessToken(t, resp, clock)
         IN [tokens |-> t2,
             req |-> [q EXCEPT !.pc = "awaitApi", !.token = t2.access_token]]
    ELSE [tokens |-> t,
          req |-> Fail(q, IF resp.kind = "rejected" THEN "request failed"
                          ELSE "Token refresh failed")]

\* What httpsRequest can resolve with for GenerateRtspStream: body.results with
\* or without streamUrls.rtspUrl.  An error status comes with an error body,
\* which has no results.
GrantResponses ==
    [kind : {"resolved"}, status : {200}, rtspUrl : Urls \cup {None}]
    \cup [kind : {"resolved"}, status : {403}, rtspUrl : {None}]
    \cup [kind : {"rejected"}, status : {0}, rtspUrl : {None}]

---------------------------------------------------------------------------
(* Initial state: the module has been loaded and initTokens() has run *)

Init ==
    /\ tokens \in {initTokens(None), initTokens(EnvRefreshToken)}
    /\ now = 0
    /\ ticks = 0
    /\ hlsStreams = [k \in {} |-> 0]
    /\ procs = <<>>
    /\ dirs \in {[s \in Slots |-> [exists |-> FALSE, files |-> {}]],
                 [s \in Slots |-> [exists |-> TRUE, files |-> Leftover]]}
    /\ reqs = [r \in Reqs |-> IdleReq]
    /\ pendingError = 0
    /\ crashed = FALSE
    /\ errlog = {}

---------------------------------------------------------------------------
(* The handlers *)

\* GET /api/devices: listDevices() runs getValidToken up to its first await.
ApiDevices(r) ==
    /\ Serving /\ Finished(r)
    /\ reqs' = [reqs EXCEPT ![r] =
                  getValidToken([IdleReq EXCEPT !.kind = "devices"], tokens, now)]
    /\ UNCHANGED <<tokens, now, ticks, hlsStreams, procs, dirs,
                   pendingError, crashed, errlog>>

\* POST /api/stream {deviceId, slotId}: generateStream() runs getValidToken up
\* to its first await.
ApiStream(r, s) ==
    /\ Serving /\ Finished(r)
    /\ reqs' = [reqs EXCEPT ![r] =
                  getValidToken([IdleReq EXCEPT !.kind = "stream", !.slot = s], tokens, now)]
    /\ UNCHANGED <<tokens, now, ticks, hlsStreams, procs, dirs,
                   pendingError, crashed, errlog>>

\* The token endpoint answers the refresh of request r: the rest of
\* refreshAccessToken, then of getValidToken, then the API request is sent.
RefreshResponse(r, resp) ==
    /\ Serving /\ reqs[r].pc = "awaitRefresh"
    /\ LET out == AfterRefresh(reqs[r], tokens, resp, now)
       IN tokens' = out.tokens /\ reqs' = [reqs EXCEPT ![r] = out.req]
    /\ UNCHANGED <<now, ticks, hlsStreams, procs, dirs, pendingError,
                   crashed, errlog>>

\* The device API answers the device list of request r.
DevicesResponse(r, ok) ==
    /\ Serving /\ reqs[r].pc = "awaitApi" /\ reqs[r].kind = "devices"
    /\ reqs' = [reqs EXCEPT ![r] = IF ok THEN Succeed(@) ELSE Fail(@, "request failed")]
    /\ UNCHANGED <<tokens, now, ticks, hlsStreams, procs, dirs,
                   pendingError, crashed, errlog>>

\* Variant of GrantRefused that has stopped the slot before it looks at the
\* answer.
GrantRefusedStopsSlot(r, resp) ==
    /\ Serving /\ reqs[r].pc = "awaitApi" /\ reqs[r].kind = "stream"
    /\ resp.rtspUrl = None
    /\ LET res == stopHls(hlsStreams, procs, reqs[r].slot)
       IN hlsStreams' = res.hls /\ procs' = res.procs
    /\ reqs' = [reqs EXCEPT ![r] = Fail(@, "No RTSP URL returned")]
    /\ UNCHANGED <<tokens, now, ticks, dirs, pendingError, crashed, errlog>>

\* The device API answers GenerateRtspStream of request r, and did not grant
\* a feed: the handler throws before startHls and answers 500.
GrantRefused(r, resp) ==
    /\ Serving /\ reqs[r].pc = "awaitApi" /\ reqs[r].kind = "stream"
    /\ resp.rtspUrl = None
    /\ reqs' = [reqs EXCEPT ![r] =
                  Fail(@, IF resp.kind = "rejected" THEN "request failed"
                          ELSE "No RTSP URL returned")]
    /\ UNCHANGED <<tokens, now, ticks, hlsStreams, procs, dirs,
                   pendingError, crashed, errlog>>

\* The device API answers GenerateRtspStream of request r with a feed URL:
\* startHls(slotId, rtspUrl), then 200, or 500 when startHls threw.
GrantStart(r, resp) ==
    /\ Serving /\ reqs[r].pc = "awaitApi" /\ reqs[r].kind = "stream"
    /\ resp.rtspUrl # None
    /\ Len(procs) < MaxProcs
    /\ \E env \in StartEnvs(dirs[reqs[r].slot]) :
         LET s == reqs[r].slot
             res == startHls(hlsStreams, procs, dirs[s], s, resp.rtspUrl, env)
         IN /\ hlsStreams' = res.hls
            /\ procs' = res.procs
            /\ dirs' = [dirs EXCEPT ![s] = res.dir]
            /\ pendingError' = res.errorOf
            /\ reqs' = [reqs EXCEPT ![r] =
                          IF res.threw
                          THEN Fail([@ EXCEPT !.url = resp.rtspUrl], "startHls threw")
                          ELSE Succeed([@ EXCEPT !.url = resp.rtspUrl])]
    /\ UNCHANGED <<tokens, now, ticks, crashed, errlog>>

\* POST /api/stop {slotId}: stopHls(slotId), then 200 {stopped: true}.
ApiStop(s) ==
    /\ Serving
    /\ LET res == stopHls(hlsStreams, procs, s)
       IN hlsStreams' = res.hls /\ procs' = res.procs
    /\ UNCHANGED <<tokens, now, ticks, dirs, reqs, pendingError, crashed,
                   errlog>>

\* POST /api/stop {slotId} as ApiStop, recording in the history field of
\* every stream request for the slot that is still waiting for the token or
\* the grant that the stop has been answered.
ApiStopAcked(s) ==
    /\ Serving
    /\ LET res == stopHls(hlsStreams, procs, s)
       IN hlsStreams' = res.hls /\ procs' = res.procs
    /\ reqs' = [r \in Reqs |->
                  IF /\ reqs[r].kind = "stream" /\ reqs[r].slot = s
                     /\ reqs[r].pc \in {"awaitRefresh", "awaitApi"}
                  THEN [reqs[r] EXCEPT !.stopAcked = TRUE]
                  ELSE reqs[r]]
    /\ UNCHANGED <<tokens, now, ticks, dirs, pendingError, crashed, errlog>>

\* SIGTERM or SIGINT: the handler is stopAllHls.
Signal ==
    /\ Serving
    /\ LET res == stopAllHls(hlsStreams, procs)
       IN hlsStreams' = res.hls /\ procs' = res.procs
    /\ UNCHANGED <<tokens, now, ticks, dirs, reqs, pendingError, crashed,
                   errlog>>

\* GET /oauth/callback, once the token endpoint has answered the code exchange.
\* A rejected request is an unhandled rejection of the async server callback.
OAuthCallback(resp) ==
    /\ Serving
    /\ IF resp.kind = "rejected"
       THEN crashed' = TRUE /\ tokens' = tokens
       ELSE /\ crashed' = crashed
            /\ tokens' = IF resp.access_token # None
                         THEN saveTokens([access_token |-> resp.access_token,
                                          refresh_token |-> resp.refresh_token,
                                          expiry |-> now + resp.expires_in * MsPerSecond])
                         ELSE tokens
    /\ UNCHANGED <<now, ticks, hlsStreams, procs, dirs, reqs, pendingError,
                   errlog>>

\* The queued 'error' event of a ChildProcess that could not be launched: it
\* has no listener, so emit throws and the server dies.
SpawnError ==
    /\ ~crashed /\ pendingError # 0
    /\ crashed' = TRUE
    /\ pendingError' = 0
    /\ UNCHANGED <<tokens, now, ticks, hlsStreams, procs, dirs, reqs, errlog>>

\* An exit listener without the identity test: it removes whatever entry the
\* slot has.
ExitCallbackUnguarded(p) ==
    /\ Serving
    /\ procs[p].state = "dead"
    /\ procs' = [procs EXCEPT ![p].state = "exited"]
    /\ hlsStreams' = Remove(hlsStreams, procs[p].slot)
    /\ UNCHANGED <<tokens, now, ticks, dirs, reqs, pendingError, crashed,
                   errlog>>

\* An exit listener that restarts the relay of a slot whose registered
\* process ended.
ExitCallbackRespawns(p) ==
    /\ Serving
    /\ procs[p].state = "dead"
    /\ LET s == procs[p].slot
           ended == [procs EXCEPT ![p].state = "exited"]
       IN IF Registered(hlsStreams, s) /\ hlsStreams[s].process = p
             /\ Len(procs) < MaxProcs
          THEN /\ procs' = Append(ended, [slot |-> s, url |-> procs[p].url,
                                          signalled |-> FALSE, state |-> "running"])
               /\ hlsStreams' = Put(hlsStreams, s,
                                    [process |-> Len(procs) + 1,
                                     rtspUrl |-> procs[p].url])
          ELSE /\ procs' = ended
               /\ hlsStreams' = IF Registered(hlsStreams, s)
                                   /\ hlsStreams[s].process = p
                                THEN Remove(hlsStreams, s)
                                ELSE hlsStreams
    /\ UNCHANGED <<tokens, now, ticks, dirs, reqs, pendingError, crashed,
                   errlog>>

\* An exit listener that also empties the staging directory of the slot.
ExitCallbackClearsDir(p) ==
    /\ Serving
    /\ procs[p].state = "dead"
    /\ procs' = [procs EXCEPT ![p].state = "exited"]
    /\ LET s == procs[p].slot
       IN /\ hlsStreams' = IF Registered(hlsStreams, s) /\ hlsStreams[s].process = p
                           THEN Remove(hlsStreams, s)
                           ELSE hlsStreams
          /\ dirs' = [dirs EXCEPT ![s].files = {}]
    /\ UNCHANGED <<tokens, now, ticks, reqs, pendingError, crashed, errlog>>

\* The 'exit' listener startHls registered on process p.
ExitCallback(p) ==
    /\ Serving
    /\ procs[p].state = "dead"
    /\ procs' = [procs EXCEPT ![p].state = "exited"]
    /\ LET s == procs[p].slot
       IN hlsStreams' = IF Registered(hlsStreams, s) /\ hlsStreams[s].process = p
                        THEN Remove(hlsStreams, s)
                        ELSE hlsStreams
    /\ UNCHANGED <<tokens, now, ticks, dirs, reqs, pendingError, crashed,
                   errlog>>

\* A stderr listener that stops the slot when ffmpeg reports a failure.
StderrDataStopsSlot(p, marked) ==
    /\ Serving
    /\ procs[p].state # "failed"
    /\ errlog' = IF marked THEN errlog \cup {procs[p].slot} ELSE errlog
    /\ LET res == IF marked THEN stopHls(hlsStreams, procs, procs[p].slot)
                  ELSE [hls |-> hlsStreams, procs |-> procs]
       IN hlsStreams' = res.hls /\ procs' = res.procs
    /\ UNCHANGED <<tokens, now, ticks, dirs, reqs, pendingError, crashed>>

\* The 'data' listener startHls registered on the stderr of process p, for a
\* chunk that does (marked) or does not contain "Error", "error" or "Failed":
\* a marked chunk is printed with console.error.  Chunks still buffered in
\* the pipe arrive after the process has ended.
StderrData(p, marked) ==
    /\ Serving
    /\ procs[p].state # "failed"
    /\ errlog' = IF marked THEN errlog \cup {procs[p].slot} ELSE errlog
    /\ UNCHANGED <<tokens, now, ticks, hlsStreams, procs, dirs, reqs,
                   pendingError, crashed>>

\* fs.existsSync(filepath) for the requested file of a staging directory.
FileExists(d) == d.exists /\ d.files # {}

\* A loop that goes on waiting although the file is there, until the time is
\* up.
HlsLoopIgnoresFile(q, d) ==
    IF q.waited < PollTimeout
    THEN [q EXCEPT !.pc = "polling"]
    ELSE IF ~FileExists(d)
         THEN [q EXCEPT !.pc = "done", !.status = 404, !.error = "Not ready",
                        !.waited = 0]
         ELSE [q EXCEPT !.pc = "done", !.status = 200, !.waited = 0]

\* The /hls/ handler from the test of its while loop on, for the request
\* record q and the directory d: wait another interval, or leave the loop and
\* answer 404 'Not ready' or 200 with the file.  The local `waited` is gone
\* when the handler returns.
HlsLoop(q, d) ==
    IF ~FileExists(d) /\ q.waited < PollTimeout
    THEN [q EXCEPT !.pc = "polling"]
    ELSE IF ~FileExists(d)
         THEN [q EXCEPT !.pc = "done", !.status = 404, !.error = "Not ready",
                        !.waited = 0]
         ELSE [q EXCEPT !.pc = "done", !.status = 200, !.waited = 0]

\* GET /hls/<slotId>/<filename>: waited = 0, then the loop.
HlsGet(r, s) ==
    /\ Serving
    /\ Finished(r)
    /\ reqs' = [reqs EXCEPT ![r] =
                  HlsLoop([IdleReq EXCEPT !.kind = "hls", !.slot = s], dirs[s])]
    /\ UNCHANGED <<tokens, now, ticks, hlsStreams, procs, dirs, pendingError,
                   crashed, errlog>>

\* The 200 ms timer of a waiting /hls/ handler fires: waited += 200, then the
\* loop again.
HlsPoll(r) ==
    /\ Serving
    /\ reqs[r].pc = "polling"
    /\ reqs' = [reqs EXCEPT ![r] =
                  HlsLoop([@ EXCEPT !.waited = @ + PollInterval],
                          dirs[reqs[r].slot])]
    /\ UNCHANGED <<tokens, now, ticks, hlsStreams, procs, dirs, pendingError,
                   crashed, errlog>>

---------------------------------------------------------------------------
(* The environment *)

\* Relay process p ends: killed, or on its own.
ProcDies(p) ==
    /\ procs[p].state = "running"
    /\ procs' = [procs EXCEPT ![p].state = "dead"]
    /\ UNCHANGED <<tokens, now, ticks, hlsStreams, dirs, reqs,
                   pendingError, crashed, errlog>>

\* Relay process p writes a segment or the manifest into its directory.
ProcWrite(p) ==
    /\ procs[p].state = "running"
    /\ dirs' = [dirs EXCEPT ![procs[p].slot].files = @ \cup {p}]
    /\ UNCHANGED <<tokens, now, ticks, hlsStreams, procs, reqs,
                   pendingError, crashed, errlog>>

Tick(d) ==
    /\ ~crashed
    /\ ticks < MaxTicks
    /\ now' = now + d
    /\ ticks' = ticks + 1
    /\ UNCHANGED <<tokens, hlsStreams, procs, dirs, reqs, pendingError,
                   crashed, errlog>>

---------------------------------------------------------------------------
(* The relay manager with the handlers that drive it.  A handler touches    *)
(* the slot table only in its last, synchronous part, so the order in which *)
(* grants arrive is the order of the starts: one request at a time is in    *)
(* flight.  The token endpoint answers a refresh with one access token      *)
(* valid for an hour, or fails; the clock stands still.                     *)

RelayTokenResponses ==
    {resp \in TokenResponses :
        RefreshSucceeds(resp) =>
            /\ resp.access_token = "at1" /\ resp.refresh_token = None
            /\ resp.expires_in = 3600}

Next ==
    \/ \E r \in RelayReqs, s \in Slots : ApiStream(r, s)
    \/ \E r \in RelayReqs, resp \in RelayTokenResponses : RefreshResponse(r, resp)
    \/ \E r \in RelayReqs, resp \in GrantResponses : GrantRefused(r, resp)
    \/ \E r \in RelayReqs, resp \in GrantResponses : GrantStart(r, resp)
    \/ \E s \in Slots : ApiStop(s)
    \/ Signal
    \/ SpawnError
    \/ \E p \in DOMAIN procs : ExitCallback(p)
    \/ \E p \in DOMAIN procs : ProcDies(p)
    \/ \E p \in DOMAIN procs : ProcWrite(p)

Spec == Init /\ [][Next]_vars

---------------------------------------------------------------------------
(* The token store with the handlers that drive it: every answer of the    *)
(* token endpoint, and a clock that advances.                               *)

CredInit ==
    /\ Init
    /\ \A s \in Slots : ~dirs[s].exists

CredNext ==
    \/ \E r \in Reqs : ApiDevices(r)
    \/ \E r \in Reqs, resp \in TokenResponses : RefreshResponse(r, resp)
    \/ \E r \in Reqs, ok \in BOOLEAN : DevicesResponse(r, ok)
    \/ \E resp \in TokenResponses : OAuthCallback(resp)
    \/ \E d \in ClockSteps : Tick(d)

CredSpec == CredInit /\ [][CredNext]_vars

---------------------------------------------------------------------------
(* Segment serving and diagnostic output next to the relay manager: one     *)
(* stream request and one /hls/ request at a time, at most MaxServed relay  *)
(* processes.                                                               *)

PollReqs == Reqs \ RelayReqs

\* The grants of ServeSpec carry one feed URL: the URL plays no part in
\* directories, logging or serving.
ServeGrants == {resp \in GrantResponses : resp.rtspUrl = "rtsp://a"}

ServeNext ==
    \/ \E r \in RelayReqs, s \in Slots : ApiStream(r, s)
    \/ \E r \in RelayReqs, resp \in RelayTokenResponses : RefreshResponse(r, resp)
    \/ \E r \in RelayReqs, resp \in ServeGrants :
          Len(procs) < MaxServed /\ GrantStart(r, resp)
    \/ \E s \in Slots : ApiStop(s)
    \/ Signal
    \/ \E p \in DOMAIN procs : ExitCallback(p)
    \/ \E p \in DOMAIN procs, marked \in BOOLEAN : StderrData(p, marked)
    \/ \E r \in PollReqs, s \in Slots : HlsGet(r, s)
    \/ \E r \in PollReqs : HlsPoll(r)
    \/ \E p \in DOMAIN procs : ProcDies(p)
    \/ \E p \in DOMAIN procs : ProcWrite(p)

ServeSpec == Init /\ [][ServeNext]_vars

---------------------------------------------------------------------------
(* The relay manager as in Spec, with the history of stops answered while a *)
(* start request is in flight.                                              *)

RaceNext ==
    \/ \E r \in RelayReqs, s \in Slots : ApiStream(r, s)
    \/ \E r \in RelayReqs, resp \in RelayTokenResponses : RefreshResponse(r, resp)
    \/ \E r \in RelayReqs, resp \in GrantResponses : GrantRefused(r, resp)
    \/ \E r \in RelayReqs, resp \in GrantResponses : GrantStart(r, resp)
    \/ \E s \in Slots : ApiStopAcked(s)
    \/ Signal
    \/ SpawnError
    \/ \E p \in DOMAIN procs : ExitCallback(p)
    \/ \E p \in DOMAIN procs : ProcDies(p)
    \/ \E p \in DOMAIN procs : ProcWrite(p)

RaceSpec == Init /\ [][RaceNext]_vars

---------------------------------------------------------------------------
(* Properties of the relay manager, under Spec *)

ProcsOf(s) == {p \in DOMAIN procs : procs[p].slot = s}

LiveProcsOf(s) == {p \in ProcsOf(s) : Live(procs[p])}

\* C1: in every reachable state each slot id has at most one live (spawned
\* and not yet exited) relay process.
C1_AtMostOneLivePerSlot ==
    \A s \in Slots : Cardinality(LiveProcsOf(s)) <= 1

\* C2: a start on a slot that is registered leaves exactly one entry for the
\* slot, bound to the URL and the process of this start, and the process the
\* slot had before has been sent the kill signal.
C2_StartReplaces ==
    [][\A s \in Slots :
          (/\ Len(procs') = Len(procs) + 1
           /\ procs'[Len(procs')].slot = s
           /\ Registered(hlsStreams, s))
          => LET old == hlsStreams[s].process
                 new == Len(procs')
             IN /\ Registered(hlsStreams', s)
                /\ hlsStreams'[s].process = new
                /\ new # old
                /\ hlsStreams'[s].rtspUrl = procs'[new].url
                /\ \E r \in Reqs : /\ reqs[r].pc = "awaitApi" /\ reqs'[r].pc = "done"
                                   /\ reqs'[r].url = hlsStreams'[s].rtspUrl
                /\ Cardinality({k \in DOMAIN hlsStreams' :
                                  procs'[hlsStreams'[k].process].slot = s}) = 1
                /\ procs'[old].signalled
                /\ ~procs[old].signalled]_vars

\* C2 witness: a slot is bound to the URL and process of a later start while an
\* earlier process of the slot, started on another URL, has been killed.
C2_Witness ==
    \E s \in Slots : \E p \in ProcsOf(s) :
        /\ Registered(hlsStreams, s)
        /\ hlsStreams[s].process = p + 1
        /\ procs[p].signalled
        /\ procs[p].url = "rtsp://a"
        /\ hlsStreams[s].rtspUrl = "rtsp://b"
        /\ Live(procs[p + 1])

\* C4: from any state stop(slotId) removes the entry and kills its process if
\* the slot is present and changes nothing if it is absent, and a second stop
\* right after it changes nothing more.
C4_StopIdempotent ==
    \A s \in Slots :
        LET once == stopHls(hlsStreams, procs, s)
            twice == stopHls(once.hls, once.procs, s)
        IN /\ ~Registered(once.hls, s)
           /\ Registered(hlsStreams, s) =>
                /\ once.procs[hlsStreams[s].process].signalled
                /\ once.hls = Remove(hlsStreams, s)
                /\ \A p \in DOMAIN procs :
                      p # hlsStreams[s].process => once.procs[p] = procs[p]
           /\ ~Registered(hlsStreams, s) =>
                once.hls = hlsStreams /\ once.procs = procs
           /\ twice = once
           /\ Serving => ENABLED ApiStop(s)

\* C4 witness: a slot has been stopped while its process ran (absent, process
\* killed and not yet gone) and another slot is registered.
C4_Witness ==
    \E s \in Slots : \E p \in LiveProcsOf(s) :
        /\ ~Registered(hlsStreams, s)
        /\ procs[p].signalled
        /\ \E s2 \in Slots : Registered(hlsStreams, s2)

C6_FailedStartLeavesNoEntry ==
    /\ \A r \in RelayReqs :
          (reqs[r].pc = "done" /\ reqs[r].error = "startHls threw")
          => ~Registered(hlsStreams, reqs[r].slot)
    /\ \A s \in Slots :
          Registered(hlsStreams, s) => procs[hlsStreams[s].process].state # "failed"

---------------------------------------------------------------------------
(* Properties of the token store, under CredSpec *)

Refreshing == {r \in Reqs : reqs[r].pc = "awaitRefresh"}

\* A step in which request r enters getValidToken.
Calls(r) == Finished(r) /\ reqs'[r] # reqs[r]

ServedFromCache(r) ==
    reqs'[r].pc = "awaitApi" /\ reqs'[r].refreshes = 0
                             /\ reqs'[r].token = tokens.access_token

SentOneRefresh(r) ==
    reqs'[r].pc = "awaitRefresh" /\ reqs'[r].refreshes = 1

\* C3: single-flight: while a refresh is in flight no second refresh request
\* is sent.
C3_SingleFlight ==
    Cardinality(Refreshing) <= 1

C8_RotatedRefreshTokenAdopted ==
    \A r \in Refreshing : \A resp \in TokenResponses :
        RefreshSucceeds(resp)
        => LET out == AfterRefresh(reqs[r], tokens, resp, now).tokens
           IN /\ out.access_token = resp.access_token
              /\ out.expiry = now + resp.expires_in * MsPerSecond
              /\ out.refresh_token = IF resp.refresh_token # None
                                     THEN resp.refresh_token
                                     ELSE tokens.refresh_token

FailedAnswers ==
    {resp \in TokenResponses :
        resp.kind = "rejected" \/ resp.status # 200 \/ resp.access_token = None}

\* Every failed answer to a refresh in flight leaves the store as it is and
\* ends the request with the error, without another refresh request.
RefreshFailureOutcome ==
    \A r \in Refreshing : \A resp \in FailedAnswers :
        LET out == AfterRefresh(reqs[r], tokens, resp, now)
        IN /\ out.tokens = tokens
           /\ out.req.pc = "done" /\ out.req.status = 500
           /\ out.req.error \in {"Token refresh failed", "request failed"}
           /\ out.req.refreshes = reqs[r].refreshes

C10_NoRefreshTokenNotAuthenticated ==
    [][\A r \in Reqs :
          (Calls(r) /\ tokens.refresh_token = None)
          => /\ reqs'[r].pc = "done"
             /\ reqs'[r].error = "Not authenticated"
             /\ reqs'[r].refreshes = 0]_vars

---------------------------------------------------------------------------
(* Exit callbacks, signals and the life of a slot, under Spec *)

\* The step in which the exit listener of process p runs.
ExitStep(p) == procs[p].state = "dead" /\ procs'[p].state = "exited"

\* C11: the exit callback of a process removes the entry of its slot if and
\* only if that entry's registered process is the process that exited; the
\* entry a later start registered for the slot survives the late exit callback
\* of the process it replaced.
C11_ExitObserverGuard ==
    [][\A p \in DOMAIN procs :
          ExitStep(p)
          => LET s == procs[p].slot
             IN IF Registered(hlsStreams, s) /\ hlsStreams[s].process = p
                THEN ~Registered(hlsStreams', s)
                     /\ \A k \in Slots \ {s} :
                           /\ Registered(hlsStreams', k) = Registered(hlsStreams, k)
                           /\ Registered(hlsStreams, k) => hlsStreams'[k] = hlsStreams[k]
                ELSE hlsStreams' = hlsStreams]_vars

\* C11 witness: start(A, u1); start(A, u2); the exit callback of the first
\* process has run and A is still bound to the second process and u2.
C11_Witness ==
    \E s \in Slots : \E p \in ProcsOf(s) :
        /\ procs[p].state = "exited"
        /\ procs[p].url = "rtsp://a"
        /\ Registered(hlsStreams, s)
        /\ hlsStreams[s].process # p
        /\ procs[hlsStreams[s].process].slot = s
        /\ hlsStreams[s].rtspUrl = "rtsp://b"

\* C12: the handler of a termination or interrupt signal is stopAll, run in
\* one step: every slot registered when the signal arrives has its process
\* sent the kill signal and its entry removed, the table is empty when the
\* handler returns, and the service is still running at that point.
C12_SignalStopsAll ==
    [][Signal
       => /\ \A s \in DOMAIN hlsStreams : procs'[hlsStreams[s].process].signalled
          /\ DOMAIN hlsStreams' = {}
          /\ DOMAIN procs' = DOMAIN procs
          /\ \A p \in DOMAIN procs : procs'[p].state = procs[p].state
          /\ ~crashed' /\ pendingError' = 0]_vars

\* C12 witness: the relays of both slots have been sent the kill signal, none
\* has ended yet, the table is empty and the service runs.
C12_Witness ==
    /\ DOMAIN hlsStreams = {}
    /\ Serving
    /\ \A s \in Slots : \E p \in LiveProcsOf(s) : procs[p].signalled

\* The step in which a start on slot s spawns its relay process.
SpawnStep(s) == Len(procs') = Len(procs) + 1 /\ procs'[Len(procs')].slot = s

\* C13: in every start the directory of the slot exists and holds no file left
\* by an earlier run when the new process is spawned, and when start returns
\* it holds none of the files that were there before the call.
C13_DirectoryCleanBeforeSpawn ==
    [][\A s \in Slots :
          SpawnStep(s)
          => /\ dirs'[s].exists
             /\ dirs'[s].files = {}
             /\ dirs'[s].files \cap dirs[s].files = {}]_vars

\* The step in which a stream request for slot s receives its grant and calls
\* startHls.
StartCall(s) ==
    \E r \in Reqs : /\ reqs[r].kind = "stream" /\ reqs[r].slot = s
                    /\ reqs[r].pc = "awaitApi" /\ reqs'[r].pc = "done"
                    /\ reqs'[r].url # None

\* C14: a relay process is spawned only inside a start call, one per call; a
\* process that has ended never runs again; and a slot that is absent (after
\* its process ended on its own and the exit callback removed the entry)
\* becomes registered again only by a start call for that slot.
C14_NoAutomaticRespawn ==
    [][/\ Len(procs') >= Len(procs)
       /\ Len(procs') # Len(procs)
          => /\ Len(procs') = Len(procs) + 1
             /\ StartCall(procs'[Len(procs')].slot)
       /\ \A p \in DOMAIN procs :
             /\ procs'[p].slot = procs[p].slot
             /\ ~Live(procs[p]) => ~Live(procs'[p])
       /\ \A s \in Slots :
             (~Registered(hlsStreams, s) /\ Registered(hlsStreams', s))
             => StartCall(s) /\ SpawnStep(s)]_vars

\* C14 witness: a process ended on its own (it was never sent a signal), its
\* exit callback has run, and its slot is absent with no live process.
C14_Witness ==
    \E s \in Slots : \E p \in ProcsOf(s) :
        /\ procs[p].state = "exited" /\ ~procs[p].signalled
        /\ ~Registered(hlsStreams, s)
        /\ LiveProcsOf(s) = {}
        /\ Serving

\* C15: in every reachable state every live relay process is the process the
\* slot table registers for its slot, or has already been sent the kill
\* signal and only awaits its end; no spawned, unsignalled process is
\* unregistered.
C15_TableIsSourceOfTruth ==
    \A p \in DOMAIN procs :
        Live(procs[p])
        => \/ /\ Registered(hlsStreams, procs[p].slot)
              /\ hlsStreams[procs[p].slot].process = p
           \/ procs[p].signalled

\* C15 witness: one slot has a live registered process, and a live process
\* that was replaced or stopped is unregistered and signalled.
C15_Witness ==
    \E p, q \in DOMAIN procs :
        /\ Live(procs[p]) /\ ~procs[p].signalled
        /\ Registered(hlsStreams, procs[p].slot)
        /\ hlsStreams[procs[p].slot].process = p
        /\ Live(procs[q]) /\ procs[q].signalled
        /\ ~(Registered(hlsStreams, procs[q].slot)
             /\ hlsStreams[procs[q].slot].process = q)

\* C20: start(A, url), stop(A) and the exit callback of a process of slot A
\* leave the table entry and every process of each other slot B as they were:
\* not changed, not signalled, not removed.
C20_SlotIndependence ==
    [][\A a \in Slots :
          (StartCall(a) \/ ApiStop(a) \/ \E p \in ProcsOf(a) : ExitStep(p))
          => \A b \in Slots \ {a} :
                /\ Registered(hlsStreams', b) = Registered(hlsStreams, b)
                /\ Registered(hlsStreams, b) => hlsStreams'[b] = hlsStreams[b]
                /\ \A q \in ProcsOf(b) : procs'[q] = procs[q]]_vars

\* C20 witness: slot B was started first and is still registered with its
\* live, unsignalled process after slot A was started, stopped and its exit
\* callback ran.
C20_Witness ==
    \E a, b \in Slots : \E p \in ProcsOf(a), q \in ProcsOf(b) :
        /\ a # b /\ q < p
        /\ procs[p].state = "exited" /\ procs[p].signalled
        /\ ~Registered(hlsStreams, a)
        /\ Registered(hlsStreams, b) /\ hlsStreams[b].process = q
        /\ Live(procs[q]) /\ ~procs[q].signalled

---------------------------------------------------------------------------
(* Staging directories, diagnostic output and segment serving, under        *)
(* ServeSpec                                                                *)

\* C17: a staging directory changes only in a start call on its own slot,
\* which changes no other directory, or by a write of a relay process of its
\* slot, a step of the environment in which no handler runs; so stop, stopAll,
\* the exit callback, the stderr listener and the /hls/ handler leave every
\* staging directory as it is.
C17_DirectoriesChangeOnlyAtStart ==
    [][\A s \in Slots :
          dirs'[s] # dirs[s]
          => \/ /\ StartCall(s)
                /\ \A b \in Slots \ {s} : dirs'[b] = dirs[b]
             \/ /\ \E p \in LiveProcsOf(s) :
                      dirs' = [dirs EXCEPT ![s].files = @ \cup {p}]
                /\ UNCHANGED <<hlsStreams, procs, reqs, errlog, pendingError,
                               crashed, tokens>>]_vars

\* C17 witness: a slot was stopped and the exit callback of its process ran,
\* the file the process wrote is still in the directory and has been served,
\* and the stderr listener has logged a line for the slot.
C17_Witness ==
    \E s \in Slots : \E p \in ProcsOf(s) : \E r \in Reqs :
        /\ procs[p].state = "exited" /\ procs[p].signalled
        /\ ~Registered(hlsStreams, s)
        /\ p \in dirs[s].files
        /\ s \in errlog
        /\ reqs[r].kind = "hls" /\ reqs[r].slot = s
        /\ reqs[r].pc = "done" /\ reqs[r].status = 200

\* C18: a stderr chunk of a relay process, with or without a failure marker,
\* leaves the slot table and every relay process unchanged; all it may do is
\* log a line, and it logs only a chunk with a marker.
C18_DiagnosticOutputFrame ==
    [][\A p \in DOMAIN procs, marked \in BOOLEAN :
          StderrData(p, marked)
          => /\ hlsStreams' = hlsStreams
             /\ procs' = procs
             /\ UNCHANGED <<tokens, now, ticks, dirs, reqs, pendingError, crashed>>
             /\ errlog' # errlog => marked /\ errlog' = errlog \cup {procs[p].slot}]_vars

\* C18 witness: a failure line of a relay process has been logged and the
\* process is still running, unsignalled and registered for its slot.
C18_Witness ==
    \E s \in errlog :
        /\ Registered(hlsStreams, s)
        /\ Live(procs[hlsStreams[s].process])
        /\ ~procs[hlsStreams[s].process].signalled

\* What the /hls/ handler of request r does in a step in which it runs: q is
\* its record after the step, w the time it has waited so far.  It serves the
\* file if the file is there, waits another interval if the time is not up,
\* and answers "not ready" when PollTimeout has been reached.
PollOutcome(r, s, w, q) ==
    /\ q.kind = "hls" /\ q.slot = s
    /\ IF FileExists(dirs[s]) THEN q.pc = "done" /\ q.status = 200
       ELSE IF w < PollTimeout THEN q.pc = "polling" /\ q.waited = w
       ELSE q.pc = "done" /\ q.status = 404 /\ w = PollTimeout
    /\ UNCHANGED <<hlsStreams, procs, dirs>>

\* C19: a /hls/ request polls for its file every PollInterval and always
\* ends: while it waits it has waited less than PollTimeout, a multiple of
\* PollInterval (so at most 40 intervals, 8000 ms), and its timer can fire
\* while the service runs; each time it runs it serves the file if it is
\* there, answers "not ready" once PollTimeout is reached, and waits one more
\* interval otherwise; it never changes the slot table.
C19_PollingBounded ==
    /\ PollTimeout = 40 * PollInterval
    /\ [](\A r \in Reqs :
            reqs[r].pc = "polling"
            => /\ reqs[r].waited \in {k * PollInterval : k \in 0..39}
               /\ Serving => ENABLED HlsPoll(r))
    /\ [][\A r \in Reqs :
            /\ (reqs[r].pc = "polling" /\ reqs'[r] # reqs[r])
               => PollOutcome(r, reqs[r].slot, reqs[r].waited + PollInterval,
                              reqs'[r])
            /\ (Finished(r) /\ reqs'[r] # reqs[r] /\ reqs'[r].kind = "hls")
               => PollOutcome(r, reqs'[r].slot, 0, reqs'[r])]_vars

\* C19 witness: the file never appeared and the request was answered "not
\* ready" (404), which happens only when PollTimeout is reached.
C19_Witness ==
    \E r \in Reqs :
        /\ reqs[r].kind = "hls" /\ reqs[r].pc = "done"
        /\ reqs[r].status = 404 /\ reqs[r].error = "Not ready"
        /\ ~FileExists(dirs[reqs[r].slot])

---------------------------------------------------------------------------
(* A stop while a start is in flight, under RaceSpec *)

\* C21: once a stop for slot A has been answered while a start request for A
\* was waiting for its grant, and no start request for A has been issued
\* since, slot A is absent and no relay process spawned for it is running
\* unsignalled.
C21_StopBeatsInFlightStart ==
    \A r \in Reqs :
        (reqs[r].kind = "stream" /\ reqs[r].stopAcked)
        => /\ ~Registered(hlsStreams, reqs[r].slot)
           /\ \A p \in LiveProcsOf(reqs[r].slot) : procs[p].signalled

====
